---- MODULE Spec2Model ----
(***************************************************************************)
(* Model of archiveService.js: the GET /archive handler, the p-limit gate  *)
(* it runs its sessions under, the browser pages it opens and the files it *)
(* writes.  One action per event-loop turn of the program: the arrival of  *)
(* a request (the synchronous head of the handler, up to its first await)  *)
(* and the settlement of each awaited promise (together with everything    *)
(* the program runs synchronously, and in microtasks, after it).           *)
(***************************************************************************)
EXTENDS Integers, Sequences, FiniteSets, TLC

\* ------------------------------------------------------------------------
\* Configuration constants
\* ------------------------------------------------------------------------
FILE_SIZE_LIMIT == 1073741824

PARALLEL_LIMIT == 5

\* ------------------------------------------------------------------------
\* Bounds of the model
\* ------------------------------------------------------------------------
\* requests of the specification with the full environment
NumReq == 2

\* requests of the specification that drives the gate beyond its capacity
NumGateReq == 6

\* requests of the run in which two of them wait at the gate together
NumFifoReq == 7

\* requests of the run in which every kind of response header is met
NumDispatchReq == 1

\* the longest string, in tokens, of those made of every token in every order
MaxTokens == 4

\* the most name=value pieces in the query of a composed URL
MaxPieces == 3

\* how many times in a row normalizeUrl is applied to its own result
MaxApply == 2

\* ------------------------------------------------------------------------
\* JavaScript strings.  A header value is kept in the state as a string and
\* read by the program character by character: Chars gives the characters
\* of the header values the environment sends and of the literals that the
\* program matches them against.
\* ------------------------------------------------------------------------
Chars(s) ==
  CASE s = "" -> <<>>
    [] s = "text/html; charset=utf-8" -> <<"t","e","x","t","/","h","t","m","l",";"," ","c","h","a","r","s","e","t","=","u","t","f","-","8">>
    [] s = "TEXT/HTML" -> <<"T","E","X","T","/","H","T","M","L">>
    [] s = "image/jpeg" -> <<"i","m","a","g","e","/","j","p","e","g">>
    [] s = "image/gif" -> <<"i","m","a","g","e","/","g","i","f">>
    [] s = "image/webp" -> <<"i","m","a","g","e","/","w","e","b","p">>
    [] s = "application/octet-stream" -> <<"a","p","p","l","i","c","a","t","i","o","n","/","o","c","t","e","t","-","s","t","r","e","a","m">>
    [] s = "application/pdf" -> <<"a","p","p","l","i","c","a","t","i","o","n","/","p","d","f">>
    [] s = "video/mp4" -> <<"v","i","d","e","o","/","m","p","4">>
    [] s = "video/" -> <<"v","i","d","e","o","/">>
    [] s = "text/csv" -> <<"t","e","x","t","/","c","s","v">>
    [] s = "application/vnd.ms-excel" -> <<"a","p","p","l","i","c","a","t","i","o","n","/","v","n","d",".","m","s","-","e","x","c","e","l">>
    [] s = "application/vnd.openxmlformats-officedocument.spreadsheetml.sheet" -> <<"a","p","p","l","i","c","a","t","i","o","n","/","v","n","d",".","o","p","e","n","x","m","l","f","o","r","m","a","t","s","-","o","f","f","i","c","e","d","o","c","u","m","e","n","t",".","s","p","r","e","a","d","s","h","e","e","t","m","l",".","s","h","e","e","t">>
    [] s = "openxmlformats-officedocument.spreadsheetml.sheet" -> <<"o","p","e","n","x","m","l","f","o","r","m","a","t","s","-","o","f","f","i","c","e","d","o","c","u","m","e","n","t",".","s","p","r","e","a","d","s","h","e","e","t","m","l",".","s","h","e","e","t">>
    [] s = "application/msword" -> <<"a","p","p","l","i","c","a","t","i","o","n","/","m","s","w","o","r","d">>
    [] s = "application/vnd.openxmlformats-officedocument.wordprocessingml.document" -> <<"a","p","p","l","i","c","a","t","i","o","n","/","v","n","d",".","o","p","e","n","x","m","l","f","o","r","m","a","t","s","-","o","f","f","i","c","e","d","o","c","u","m","e","n","t",".","w","o","r","d","p","r","o","c","e","s","s","i","n","g","m","l",".","d","o","c","u","m","e","n","t">>
    [] s = "openxmlformats-officedocument.wordprocessingml.document" -> <<"o","p","e","n","x","m","l","f","o","r","m","a","t","s","-","o","f","f","i","c","e","d","o","c","u","m","e","n","t",".","w","o","r","d","p","r","o","c","e","s","s","i","n","g","m","l",".","d","o","c","u","m","e","n","t">>
    [] s = "application/zip" -> <<"a","p","p","l","i","c","a","t","i","o","n","/","z","i","p">>
    [] s = "text/html" -> <<"t","e","x","t","/","h","t","m","l">>
    [] s = "image/" -> <<"i","m","a","g","e","/">>
    [] s = "jpeg" -> <<"j","p","e","g">>
    [] s = "gif" -> <<"g","i","f">>
    [] s = "mp4" -> <<"m","p","4">>
    [] s = "webp" -> <<"w","e","b","p">>
    [] s = "0" -> <<"0">>
    [] s = "1024" -> <<"1","0","2","4">>
    [] s = "1073741824" -> <<"1","0","7","3","7","4","1","8","2","4">>
    [] s = "1073741825" -> <<"1","0","7","3","7","4","1","8","2","5">>
    [] s = "unknown" -> <<"u","n","k","n","o","w","n">>
    [] s = "application/zip; text/html" -> <<"a","p","p","l","i","c","a","t","i","o","n","/","z","i","p",";"," ","t","e","x","t","/","h","t","m","l">>
    [] s = "text/csv; x=image/" -> <<"t","e","x","t","/","c","s","v",";"," ","x","=","i","m","a","g","e","/">>
    [] s = "Image/GIF" -> <<"I","m","a","g","e","/","G","I","F">>
    [] s = "application/json" -> <<"a","p","p","l","i","c","a","t","i","o","n","/","j","s","o","n">>

\* the strings Chars knows, to turn a computed character sequence back into
\* a string (the video saver computes its extension from the header)
KnownStrings ==
  {"", "mp4", "webp", "jpeg", "gif", "0", "1024", "unknown", "text/html",
   "image/", "video/"}

Str(cs) == IF \E s \in KnownStrings : Chars(s) = cs
           THEN CHOOSE s \in KnownStrings : Chars(s) = cs
           ELSE "?"

\* String.prototype.includes
includes(s, t) ==
  LET cs == Chars(s)
      ct == Chars(t)
  IN  \E i \in 0..(Len(cs) - Len(ct)) : SubSeq(cs, i + 1, i + Len(ct)) = ct

\* String.prototype.startsWith
startsWith(s, t) ==
  LET cs == Chars(s)
      ct == Chars(t)
  IN  Len(ct) <= Len(cs) /\ SubSeq(cs, 1, Len(ct)) = ct

\* the positions of "/" in a character sequence
SlashAt(cs) == {i \in 1..Len(cs) : cs[i] = "/"}

\* s.split('/')[1] || dflt : the text between the first and the second "/"
\* (to the end when there is one "/"); dflt when there is no "/" or the text
\* is empty
splitSlash1(s, dflt) ==
  LET cs == Chars(s)
      sl == SlashAt(cs)
  IN  IF sl = {} THEN dflt
      ELSE LET a    == CHOOSE i \in sl : \A j \in sl : i <= j
               rest == {j \in sl : j > a}
               b    == IF rest = {} THEN Len(cs) + 1
                       ELSE CHOOSE i \in rest : \A j \in rest : i <= j
               part == SubSeq(cs, a + 1, b - 1)
           IN  IF part = <<>> THEN dflt ELSE Str(part)

DigitValue(c) ==
  CASE c = "0" -> 0 [] c = "1" -> 1 [] c = "2" -> 2 [] c = "3" -> 3
    [] c = "4" -> 4 [] c = "5" -> 5 [] c = "6" -> 6 [] c = "7" -> 7
    [] c = "8" -> 8 [] c = "9" -> 9 [] OTHER -> -1

RECURSIVE DigitsValue(_, _, _)
DigitsValue(cs, i, acc) ==
  IF i > Len(cs) \/ DigitValue(cs[i]) < 0 THEN acc
  ELSE DigitsValue(cs, i + 1, acc * 10 + DigitValue(cs[i]))

\* parseInt(s, 10): the leading decimal digits of s; NaN when s starts with none
parseInt(s) ==
  LET cs == Chars(s)
  IN  IF cs = <<>> \/ DigitValue(cs[1]) < 0
      THEN [nan |-> TRUE, value |-> 0]
      ELSE [nan |-> FALSE, value |-> DigitsValue(cs, 1, 0)]

\* ------------------------------------------------------------------------
\* normalizeUrl.  A URL string is a sequence of tokens: an origin with its
\* root path, the separators "?", "&", "=", "#", and pieces of text, plain
\* or percent-encoded.  new URL accepts a string that starts with an origin
\* and throws on any other.
\* ------------------------------------------------------------------------
\* the origins the parser accepts, in the spellings users type
Origins == {"https://ex.com/", "HTTPS://EX.COM/"}

\* the parser lower-cases scheme and host
CanonOrigin(t) == IF t = "HTTPS://EX.COM/" THEN "https://ex.com/" ELSE t

\* application/x-www-form-urlencoded: what the parser of searchParams makes
\* of a token of the query, and how its serializer writes a piece of text
FormDecode(t) ==
  CASE t = "+"            -> " "
    [] t = "%20"          -> " "
    [] t = "%3D"          -> "="
    [] t = "%3F"          -> "?"
    [] t = "utm%5Fsource" -> "utm_source"
    [] OTHER              -> t

FormEncode(t) ==
  CASE t = " " -> "+"
    [] t = "=" -> "%3D"
    [] t = "?" -> "%3F"
    [] OTHER   -> t

\* a run of tokens decoded, and a text encoded, token by token
DecodeText(seq) == [i \in 1..Len(seq) |-> FormDecode(seq[i])]

EncodeText(seq) == [i \in 1..Len(seq) |-> FormEncode(seq[i])]

\* the first position of token t in seq, 0 when it has none
FirstIndex(seq, t) ==
  IF \E i \in 1..Len(seq) : seq[i] = t
  THEN CHOOSE i \in 1..Len(seq) : seq[i] = t /\ \A j \in 1..(i - 1) : seq[j] # t
  ELSE 0

\* new URL(inputUrl): ok is FALSE when the constructor throws
URLParse(inputUrl) ==
  IF Len(inputUrl) = 0 \/ inputUrl[1] \notin Origins
  THEN [ok |-> FALSE, origin |-> "", path |-> <<>>, query |-> <<>>, fragment |-> <<>>]
  ELSE LET rest     == Tail(inputUrl)
           h        == FirstIndex(rest, "#")
           head     == IF h = 0 THEN rest ELSE SubSeq(rest, 1, h - 1)
           fragment == IF h = 0 THEN <<>> ELSE SubSeq(rest, h, Len(rest))
           q        == FirstIndex(head, "?")
       IN  [ok       |-> TRUE,
            origin   |-> CanonOrigin(inputUrl[1]),
            path     |-> IF q = 0 THEN head ELSE SubSeq(head, 1, q - 1),
            query    |-> IF q = 0 THEN <<>> ELSE SubSeq(head, q + 1, Len(head)),
            fragment |-> fragment]

\* the query cut at its "&"s
RECURSIVE SplitAmp(_)
SplitAmp(query) ==
  LET a == FirstIndex(query, "&")
  IN  IF a = 0 THEN <<query>>
      ELSE <<SubSeq(query, 1, a - 1)>> \o SplitAmp(SubSeq(query, a + 1, Len(query)))

\* one name=value piece of a query: the name ends at the first "="
ParsePair(piece) ==
  LET e == FirstIndex(piece, "=")
  IN  [name  |-> DecodeText(IF e = 0 THEN piece ELSE SubSeq(piece, 1, e - 1)),
       value |-> DecodeText(IF e = 0 THEN <<>> ELSE SubSeq(piece, e + 1, Len(piece)))]

\* urlObj.searchParams: the list of pairs of the query, empty pieces skipped
SearchParams(query) ==
  LET pieces == SelectSeq(SplitAmp(query), LAMBDA piece : piece # <<>>)
  IN  [i \in 1..Len(pieces) |-> ParsePair(pieces[i])]

\* searchParams.toString()
RECURSIVE SerializeParams(_)
SerializeParams(list) ==
  IF list = <<>> THEN <<>>
  ELSE EncodeText(list[1].name) \o <<"=">> \o EncodeText(list[1].value)
       \o (IF Len(list) = 1 THEN <<>> ELSE <<"&">> \o SerializeParams(Tail(list)))

\* mutant: the last name of the list is missing
paramsToRemove_noYclid ==
  <<"utm_source", "utm_medium", "utm_campaign", "utm_term", "utm_content",
    "gclid", "dclid", "fbclid", "msclkid">>

paramsToRemove ==
  <<"utm_source", "utm_medium", "utm_campaign", "utm_term", "utm_content",
    "gclid", "dclid", "fbclid", "msclkid", "yclid">>

\* mutant: only the first pair of the name is removed
deleteParam_firstOnly(list, param) ==
  LET hits == {i \in 1..Len(list) : list[i].name = <<param>>}
  IN  IF hits = {} THEN list
      ELSE LET k == CHOOSE i \in hits : \A j \in hits : i <= j
           IN  SubSeq(list, 1, k - 1) \o SubSeq(list, k + 1, Len(list))

\* urlObj.searchParams.delete(param): every pair of that name is removed
deleteParam(list, param) ==
  SelectSeq(list, LAMBDA pair : pair.name # <<param>>)

\* paramsToRemove.forEach(param => urlObj.searchParams.delete(param))
RECURSIVE DeleteEach(_, _)
DeleteEach(list, params) ==
  IF params = <<>> THEN list
  ELSE DeleteEach(deleteParam(list, params[1]), Tail(params))

\* urlObj.toString() after the deletes: every delete rewrites the query from
\* the list, and a list left empty leaves the URL without a query
Href(url, list) ==
  <<url.origin>> \o url.path
  \o (IF list = <<>> THEN <<>> ELSE <<"?">> \o SerializeParams(list))
  \o url.fragment

normalizeUrl(inputUrl) ==
  LET urlObj == URLParse(inputUrl)
  IN  IF urlObj.ok
      THEN Href(urlObj, DeleteEach(SearchParams(urlObj.query), paramsToRemove))
      ELSE inputUrl

\* crypto.createHash('sha1').update(s).digest('hex'): one digest per string
sha1(s) == [sha1 |-> s]

\* mutant: only a missing parameter is refused (originalUrl === undefined)
IsFalsy_undefinedOnly(query) == "url" \notin DOMAIN query

\* !originalUrl: req.query.url is missing or the empty string
IsFalsy(query) == "url" \notin DOMAIN query \/ query["url"] = <<>>

\* ------------------------------------------------------------------------
\* Size check and content-type dispatch of the gated block
\* ------------------------------------------------------------------------
\* response.headers()[name]
HasHeader(headers, name) == name \in DOMAIN headers

\* mutant: a size equal to the ceiling is rejected too
SizeExceeded_orEqual(headers) ==
  /\ HasHeader(headers, "content-length")
  /\ headers["content-length"] # ""
  /\ ~parseInt(headers["content-length"]).nan
  /\ parseInt(headers["content-length"]).value >= FILE_SIZE_LIMIT

\* mutant: the ceiling is compared with slack
SizeExceeded_slack(headers) ==
  /\ HasHeader(headers, "content-length")
  /\ headers["content-length"] # ""
  /\ ~parseInt(headers["content-length"]).nan
  /\ parseInt(headers["content-length"]).value > FILE_SIZE_LIMIT + 1024

\* contentLengthHeader && parseInt(contentLengthHeader, 10) > FILE_SIZE_LIMIT
SizeExceeded(headers) ==
  /\ HasHeader(headers, "content-length")
  /\ headers["content-length"] # ""
  /\ ~parseInt(headers["content-length"]).nan
  /\ parseInt(headers["content-length"]).value > FILE_SIZE_LIMIT

\* response.headers()['content-type'] || ''
ContentTypeOf(headers) ==
  IF HasHeader(headers, "content-type") THEN headers["content-type"] ELSE ""

\* mutant: the subtype is used as the extension of a JPEG
ImageExt_subtype(contentType) ==
  IF includes(contentType, "jpeg") THEN "jpeg"
  ELSE IF includes(contentType, "gif") THEN "gif"
  ELSE "png"

\* let ext = 'png'; if jpeg ... else if gif ...
ImageExt(contentType) ==
  IF includes(contentType, "jpeg") THEN "jpg"
  ELSE IF includes(contentType, "gif") THEN "gif"
  ELSE "png"

\* The if/else-if chain over contentType: the saver it selects and the
\* extension of the one file a raw saver writes.
Dispatch(contentType) ==
  IF includes(contentType, "text/html")
    THEN [saver |-> "html", ext |-> "html"]
  ELSE IF includes(contentType, "application/pdf")
    THEN [saver |-> "raw", ext |-> "pdf"]
  ELSE IF startsWith(contentType, "image/")
    THEN [saver |-> "raw", ext |-> ImageExt(contentType)]
  ELSE IF startsWith(contentType, "video/")
    THEN [saver |-> "raw", ext |-> splitSlash1(contentType, "mp4")]
  ELSE IF includes(contentType, "text/csv")
    THEN [saver |-> "raw", ext |-> "csv"]
  ELSE IF \/ includes(contentType, "application/vnd.ms-excel")
          \/ includes(contentType, "application/vnd.openxmlformats-officedocument.spreadsheetml.sheet")
    THEN [saver |-> "raw",
          ext |-> IF includes(contentType, "openxmlformats-officedocument.spreadsheetml.sheet")
                  THEN "xlsx" ELSE "xls"]
  ELSE IF \/ includes(contentType, "application/msword")
          \/ includes(contentType, "application/vnd.openxmlformats-officedocument.wordprocessingml.document")
    THEN [saver |-> "raw",
          ext |-> IF includes(contentType, "openxmlformats-officedocument.wordprocessingml.document")
                  THEN "docx" ELSE "doc"]
  ELSE IF includes(contentType, "application/zip")
    THEN [saver |-> "raw", ext |-> "zip"]
  ELSE [saver |-> "fallback", ext |-> "html"]

\* mutant: the HTML saver takes the screenshot before the PDF
NextStep_pdfLast(saver, step) ==
  CASE step = "content" /\ saver = "html" -> "screenshot"
    [] step = "content" /\ saver # "html" -> "close"
    [] step = "screenshot" -> "pdf"
    [] step = "pdf"        -> "close"
    [] step = "body"       -> "close"

\* after a settled step of a saver, the next await of the gated block
NextStep(saver, step) ==
  CASE step = "content" /\ saver = "html" -> "pdf"
    [] step = "content" /\ saver # "html" -> "close"
    [] step = "pdf"        -> "screenshot"
    [] step = "screenshot" -> "close"
    [] step = "body"       -> "close"

\* the key of savedFiles a step records its file under, and the file's
\* extension
KindOf(step) ==
  CASE step = "content"    -> "html"
    [] step = "pdf"        -> "pdf"
    [] step = "screenshot" -> "screenshot"
    [] step = "body"       -> "file"

ExtOf(step, contentType) ==
  CASE step = "content"    -> "html"
    [] step = "pdf"        -> "pdf"
    [] step = "screenshot" -> "png"
    [] step = "body"       -> Dispatch(contentType).ext

\* `${hash}.${ext}`, path.join(archiveSubDir, fileName), `${baseUrl}/${fileName}`
FileName(hash, ext) == [stem |-> hash, ext |-> ext]

\* mutant: every file goes into one directory
FilePath_sharedDir(hash, fileName) == [dir |-> [sha1 |-> <<>>], name |-> fileName]

FilePath(hash, fileName) == [dir |-> hash, name |-> fileName]

PublicUrl(hash, fileName) ==
  [base |-> "http://localhost:3000/files", dir |-> hash, name |-> fileName]

\* ------------------------------------------------------------------------
\* Responses of the handler
\* ------------------------------------------------------------------------
EmptyMap == [k \in {} |-> ""]

NoResult == [status |-> 0, body |-> EmptyMap]

BadRequest ==
  [status |-> 400, body |-> [error |-> "URL is required as a query parameter."]]

\* mutant: the catch forgets res.status(500)
CatchResponse_status200(message) ==
  [status |-> 200,
   body   |-> [error |-> IF message = "" THEN "Archiving failed." ELSE message]]

\* catch (err): res.status(500).json({ error: err.message || 'Archiving failed.' })
CatchResponse(message) ==
  [status |-> 500,
   body   |-> [error |-> IF message = "" THEN "Archiving failed." ELSE message]]

\* the names bound in the scope of the handler's try block (savedFiles is
\* declared with let inside the callback given to limit, not here)
HandlerScope ==
  {"req", "res", "originalUrl", "normalizedUrl", "hash", "archiveSubDir",
   "baseUrl"}

ReferenceErrorMessage == "savedFiles is not defined"

\* res.json(savedFiles), evaluated in the handler's scope inside the try
ResJson(saved) ==
  IF "savedFiles" \in HandlerScope
  THEN [status |-> 200, body |-> saved]
  ELSE CatchResponse(ReferenceErrorMessage)

\* the message of the error a failing step of the environment raises
FaultMessage(step) ==
  CASE step = "newPage"    -> "browser.newPage: Target closed"
    [] step = "goto"       -> "page.goto: net::ERR_NAME_NOT_RESOLVED"
    [] step = "content"    -> "page.content: Execution context was destroyed"
    [] step = "body"       -> "response.body: No resource with given identifier found"
    [] step = "write"      -> "ENOSPC: no space left on device, write"
    [] step = "pdf"        -> "page.pdf: Printing failed"
    [] step = "screenshot" -> "page.screenshot: Unable to capture screenshot"
    [] step = "close"      -> "page.close: Target closed"

SizeMessage == "File size exceeds 1GB, not saving."

\* ------------------------------------------------------------------------
\* The gate: limit = pLimit(PARALLEL_LIMIT)
\* ------------------------------------------------------------------------
\* mutant: the gate is built one slot too wide
concurrency_plusOne == PARALLEL_LIMIT + 1

concurrency == PARALLEL_LIMIT

\* p-limit starts the head of its queue when fewer than concurrency run
\* mutant: the job that was queued last is taken
dequeue_last(q) == [job |-> q[Len(q)], rest |-> SubSeq(q, 1, Len(q) - 1)]

\* the waiting jobs are taken from the front of the queue they were added
\* to at the back
dequeue(q) == [job |-> Head(q), rest |-> Tail(q)]

CanStart(active, q) == active < concurrency /\ Len(q) > 0

\* ------------------------------------------------------------------------
\* State
\* ------------------------------------------------------------------------
VARIABLES
  browser,      \* the global browser: "undefined" or "launched"
  server,       \* "launching", "listening" or "failed" (never listens)
  pc,           \* per request: where its handler is
  query,        \* per request: req.query
  activeCount,  \* p-limit: sessions running
  queue,        \* p-limit: requests waiting, oldest first
  admittedBy,   \* per request: the request whose release started it (0: none)
  page,         \* per request: its page: "none", "open" or "closed"
  resp,         \* per request: the response page.goto resolved with
  savedFiles,   \* per request: savedFiles of its gated block
  written,      \* per request: the paths it has written
  dirs,         \* the hash directories that exist under ARCHIVE_DIR
  disk,         \* the files under ARCHIVE_DIR: path -> request that wrote it last
  result,       \* per request: the HTTP response its handler sent
  urlHash,      \* per request: the digest of its normalised URL
  urlIn,        \* a string given to normalizeUrl on its own
  urlOut        \* what normalizeUrl returned for it, and for what it returned

vars == <<browser, server, pc, query, activeCount, queue, admittedBy, page, resp,
          savedFiles, written, dirs, disk, result, urlHash, urlIn,
          urlOut>>

Reqs == DOMAIN pc

NoResponse == [status |-> 0, headers |-> EmptyMap]

\* pc values inside the gated block
Running == {"newPage", "goto", "content", "pdf", "screenshot", "body", "close"}

originalUrl(r) == query[r]["url"]

hashOf(r) == urlHash[r]

contentTypeOf(r) == ContentTypeOf(resp[r].headers)

InitN(n) ==
  /\ browser = "undefined"
  /\ server = "launching"
  /\ pc = [r \in 1..n |-> "idle"]
  /\ query = [r \in 1..n |-> EmptyMap]
  /\ activeCount = 0
  /\ queue = <<>>
  /\ admittedBy = [r \in 1..n |-> 0]
  /\ page = [r \in 1..n |-> "none"]
  /\ resp = [r \in 1..n |-> NoResponse]
  /\ savedFiles = [r \in 1..n |-> EmptyMap]
  /\ written = [r \in 1..n |-> {}]
  /\ dirs = {}
  /\ disk = EmptyMap
  /\ result = [r \in 1..n |-> NoResult]
  /\ urlHash = [r \in 1..n |-> sha1(<<>>)]
  /\ urlOut = <<>>

\* ------------------------------------------------------------------------
\* Startup: launchBrowser().then(() => app.listen(PORT, ...)).catch(...)
\* ------------------------------------------------------------------------
\* mutant: app.listen is called whether or not the launch succeeded
LaunchSettled_listensAnyway(E) ==
  /\ server = "launching"
  /\ \E ok \in {TRUE} \cup {f \in {FALSE} : E.launchMayFail} :
       /\ browser' = IF ok THEN "launched" ELSE browser
       /\ server' = "listening"
  /\ UNCHANGED <<pc, query, activeCount, queue, admittedBy, page, resp,
                 savedFiles, written, dirs, disk, result, urlHash, urlIn, urlOut>>

LaunchSettled(E) ==
  /\ server = "launching"
  /\ \E ok \in {TRUE} \cup {f \in {FALSE} : E.launchMayFail} :
       /\ browser' = IF ok THEN "launched" ELSE browser
       /\ server' = IF ok THEN "listening" ELSE "failed"
  /\ UNCHANGED <<pc, query, activeCount, queue, admittedBy, page, resp,
                 savedFiles, written, dirs, disk, result, urlHash, urlIn, urlOut>>

\* ------------------------------------------------------------------------
\* The limit promise of request r settles: p-limit's next() releases the
\* slot and starts the head of the queue (whose callback runs up to its
\* await of browser.newPage()), and the handler of r sends `response`.
\* ------------------------------------------------------------------------
Settle(r, response) ==
  LET admit == Len(queue) > 0
  IN  /\ activeCount' = IF admit THEN activeCount - 1 + 1 ELSE activeCount - 1
      /\ queue' = IF admit THEN dequeue(queue).rest ELSE queue
      /\ admittedBy' = IF admit THEN [admittedBy EXCEPT ![dequeue(queue).job] = r]
                       ELSE admittedBy
      /\ pc' = [q \in Reqs |->
                  IF q = r THEN "done"
                  ELSE IF admit /\ q = dequeue(queue).job THEN "newPage"
                  ELSE pc[q]]
      /\ result' = [result EXCEPT ![r] = response]

\* mutant: a block that throws keeps its slot (no release on rejection)
Throw_keepsSlot(r, message) ==
  /\ pc' = [pc EXCEPT ![r] = "done"]
  /\ result' = [result EXCEPT ![r] = CatchResponse(message)]
  /\ UNCHANGED <<activeCount, queue, admittedBy>>

\* the gated block throws: the rejection reaches the handler's catch
Throw(r, message) == Settle(r, CatchResponse(message))

\* the gated block returns: the handler goes on to res.json(savedFiles)
Return(r) == Settle(r, ResJson(savedFiles[r]))

\* ------------------------------------------------------------------------
\* app.get('/archive'): the handler up to `await limit(...)`, p-limit's
\* enqueue and the microtask in which it starts the request if it can
\* ------------------------------------------------------------------------
Arrive(E, r) ==
  /\ server = "listening"
  /\ pc[r] = "idle"
  /\ \A p \in Reqs : p < r => pc[p] # "idle"
  /\ \E q \in E.queries[r], mkdirOk \in {TRUE} \cup {f \in {FALSE} : "mkdir" \in E.faults[r]} :
       /\ query' = [query EXCEPT ![r] = q]
       /\ urlHash' = IF IsFalsy(q) THEN urlHash
                     ELSE [urlHash EXCEPT ![r] = sha1(normalizeUrl(q["url"]))]
       /\ IF IsFalsy(q)
          THEN /\ pc' = [pc EXCEPT ![r] = "done"]
               /\ result' = [result EXCEPT ![r] = BadRequest]
               /\ UNCHANGED <<activeCount, queue, dirs>>
          ELSE IF ~mkdirOk
          THEN \* fs.mkdirSync throws outside the try: the async handler
               \* rejects and sends nothing
               /\ pc' = [pc EXCEPT ![r] = "uncaught"]
               /\ UNCHANGED <<activeCount, queue, dirs, result>>
          ELSE LET q1    == Append(queue, r)
                   start == CanStart(activeCount, q1)
               IN  /\ dirs' = dirs \cup {sha1(normalizeUrl(q["url"]))}
                   /\ activeCount' = IF start THEN activeCount + 1 ELSE activeCount
                   /\ queue' = IF start THEN dequeue(q1).rest ELSE q1
                   /\ pc' = [p \in Reqs |->
                               IF start /\ p = dequeue(q1).job THEN "newPage"
                               ELSE IF p = r THEN "queued"
                               ELSE pc[p]]
                   /\ UNCHANGED result
  /\ UNCHANGED <<browser, server, admittedBy, page, resp, savedFiles, written,
                 disk, urlIn, urlOut>>

\* ------------------------------------------------------------------------
\* The gated block, one action per awaited promise
\* ------------------------------------------------------------------------
\* const page = await browser.newPage(); then page.goto(...) is called
NewPageSettled(E, r) ==
  /\ pc[r] = "newPage"
  /\ \E ok \in {TRUE} \cup {f \in {FALSE} : "newPage" \in E.faults[r]} :
       IF ok
       THEN /\ page' = [page EXCEPT ![r] = "open"]
            /\ pc' = [pc EXCEPT ![r] = "goto"]
            /\ UNCHANGED <<activeCount, queue, admittedBy, result>>
       ELSE /\ Throw(r, FaultMessage("newPage"))
            /\ UNCHANGED page
  /\ UNCHANGED <<browser, server, query, resp, savedFiles, written, dirs, disk,
                 urlHash, urlIn, urlOut>>

\* const response = await page.goto(...); the size check; the dispatch on
\* content-type up to the first await of the selected saver
GotoSettled(E, r) ==
  /\ pc[r] = "goto"
  /\ \E o \in E.responses[r] \cup {f \in {NoResponse} : "goto" \in E.faults[r]} :
       IF o = NoResponse
       THEN /\ Throw(r, FaultMessage("goto"))
            /\ UNCHANGED resp
       ELSE /\ resp' = [resp EXCEPT ![r] = o]
            /\ IF SizeExceeded(o.headers)
               THEN Throw(r, SizeMessage)
               ELSE /\ pc' = [pc EXCEPT ![r] =
                         IF Dispatch(ContentTypeOf(o.headers)).saver = "raw"
                         THEN "body" ELSE "content"]
                    /\ UNCHANGED <<activeCount, queue, admittedBy, result>>
  /\ UNCHANGED <<browser, server, query, page, savedFiles, written, dirs, disk,
                 urlHash, urlIn, urlOut>>

\* One save step settles.  step is the awaited call (page.content(),
\* response.body(), page.pdf(), page.screenshot()); content and body are
\* followed by fs.writeFileSync, pdf and screenshot write their file
\* themselves.  On success the file is on disk and recorded in savedFiles,
\* and the block goes on to its next await; on failure the block throws.
\* mutant: a file that is already on disk is left as it is
SaveSettled_keepsFirst(E, r, step) ==
  /\ pc[r] = step
  /\ LET fileName  == FileName(hashOf(r), ExtOf(step, contentTypeOf(r)))
         path      == FilePath(hashOf(r), fileName)
         canFail   == {step} \cup (IF step \in {"content", "body"} THEN {"write"} ELSE {})
     IN  \E o \in {"ok"} \cup (canFail \cap E.faults[r]) :
           IF o = "ok"
           THEN /\ disk' = disk @@ (path :> r)
                /\ written' = [written EXCEPT ![r] = @ \cup {path}]
                /\ savedFiles' = [savedFiles EXCEPT ![r] =
                     (KindOf(step) :> PublicUrl(hashOf(r), fileName)) @@ @]
                /\ pc' = [pc EXCEPT ![r] =
                     NextStep(Dispatch(contentTypeOf(r)).saver, step)]
                /\ UNCHANGED <<activeCount, queue, admittedBy, result>>
           ELSE /\ Throw(r, FaultMessage(o))
                /\ UNCHANGED <<disk, written, savedFiles>>
  /\ UNCHANGED <<browser, server, query, page, resp, dirs, urlHash, urlIn, urlOut>>

SaveSettled(E, r, step) ==
  /\ pc[r] = step
  /\ LET fileName  == FileName(hashOf(r), ExtOf(step, contentTypeOf(r)))
         path      == FilePath(hashOf(r), fileName)
         canFail   == {step} \cup (IF step \in {"content", "body"} THEN {"write"} ELSE {})
     IN  \E o \in {"ok"} \cup (canFail \cap E.faults[r]) :
           IF o = "ok"
           THEN /\ disk' = (path :> r) @@ disk
                /\ written' = [written EXCEPT ![r] = @ \cup {path}]
                /\ savedFiles' = [savedFiles EXCEPT ![r] =
                     (KindOf(step) :> PublicUrl(hashOf(r), fileName)) @@ @]
                /\ pc' = [pc EXCEPT ![r] =
                     NextStep(Dispatch(contentTypeOf(r)).saver, step)]
                /\ UNCHANGED <<activeCount, queue, admittedBy, result>>
           ELSE /\ Throw(r, FaultMessage(o))
                /\ UNCHANGED <<disk, written, savedFiles>>
  /\ UNCHANGED <<browser, server, query, page, resp, dirs, urlHash, urlIn, urlOut>>

ContentSettled(E, r) == SaveSettled(E, r, "content")

PdfSettled(E, r) == SaveSettled(E, r, "pdf")

ScreenshotSettled(E, r) == SaveSettled(E, r, "screenshot")

BodySettled(E, r) == SaveSettled(E, r, "body")

\* await page.close(), the last statement of the gated block
CloseSettled(E, r) ==
  /\ pc[r] = "close"
  /\ \E ok \in {TRUE} \cup {f \in {FALSE} : "close" \in E.faults[r]} :
       IF ok
       THEN /\ page' = [page EXCEPT ![r] = "closed"]
            /\ Return(r)
       ELSE /\ Throw(r, FaultMessage("close"))
            /\ UNCHANGED page
  /\ UNCHANGED <<browser, server, query, resp, savedFiles, written, dirs, disk,
                 urlHash, urlIn, urlOut>>

NextIn(E) ==
  \/ LaunchSettled(E)
  \/ \E r \in Reqs : Arrive(E, r)
  \/ \E r \in Reqs : NewPageSettled(E, r)
  \/ \E r \in Reqs : GotoSettled(E, r)
  \/ \E r \in Reqs : ContentSettled(E, r)
  \/ \E r \in Reqs : PdfSettled(E, r)
  \/ \E r \in Reqs : ScreenshotSettled(E, r)
  \/ \E r \in Reqs : BodySettled(E, r)
  \/ \E r \in Reqs : CloseSettled(E, r)

\* ------------------------------------------------------------------------
\* Environments: the requests that arrive, the responses the navigated
\* servers give, the steps that may fail
\* ------------------------------------------------------------------------
\* name=value pairs written out and joined with "&"
RECURSIVE JoinPairs(_)
JoinPairs(params) ==
  IF params = <<>> THEN <<>>
  ELSE <<params[1][1], "=", params[1][2]>>
       \o (IF Len(params) = 1 THEN <<>> ELSE <<"&">> \o JoinPairs(Tail(params)))

\* the URL string of an origin and a query
Url(text, params) ==
  <<text>> \o (IF params = <<>> THEN <<>> ELSE <<"?">> \o JoinPairs(params))

\* a string that is no URL ("" is the empty string)
NotUrl(text) == IF text = "" THEN <<>> ELSE <<text>>

Q(u) == [url |-> u]

Headers(contentType, contentLength) ==
  [n \in (IF contentType = "absent" THEN {} ELSE {"content-type"})
         \cup (IF contentLength = "absent" THEN {} ELSE {"content-length"}) |->
     IF n = "content-type" THEN contentType ELSE contentLength]

Response(status, contentType, contentLength) ==
  [status |-> status, headers |-> Headers(contentType, contentLength)]

AllFaults ==
  {"mkdir", "newPage", "goto", "content", "body", "write", "pdf",
   "screenshot", "close"}

\* Requests arrive with the parameter missing or with a URL carrying a
\* tracking parameter (the odd ones), with the empty string or with the same
\* URL without the tracking parameter (the even ones); any navigation may be
\* given any of the responses, and any step may fail.
FullEnv ==
  [queries   |-> [r \in 1..NumReq |->
                   IF r % 2 = 1
                   THEN {EmptyMap,
                         Q(Url("https://ex.com/", <<<<"utm_source", "x">>, <<"id", "1">>>>))}
                   ELSE {Q(NotUrl("")),
                         Q(Url("https://ex.com/", <<<<"id", "1">>>>))}],
   responses |-> [r \in 1..NumReq |->
                   {Response(200, "text/html; charset=utf-8", "absent"),
                    Response(200, "text/html; charset=utf-8", "1073741825"),
                    Response(200, "image/jpeg", "1073741824"),
                    Response(404, "image/jpeg", "1024"),
                    Response(200, "application/octet-stream", "absent"),
                    Response(200, "absent", "absent")}],
   faults    |-> [r \in 1..NumReq |-> AllFaults],
   launchMayFail |-> TRUE]

\* more requests than the gate has slots, each for a URL of its own: the
\* first is given an HTML page, the second an image, the others a response
\* above the size ceiling (their block throws), and the navigation of any
\* but these two may fail
GateEnv ==
  [queries   |-> [r \in 1..NumGateReq |->
                   {Q(Url("https://ex.com/", <<<<"id", ToString(r)>>>>))}],
   responses |-> [r \in 1..NumGateReq |->
                   IF r = 1
                   THEN {Response(200, "text/html; charset=utf-8", "absent")}
                   ELSE IF r = 2
                   THEN {Response(200, "image/jpeg", "1024")}
                   ELSE {Response(200, "image/jpeg", "1073741825")}],
   faults    |-> [r \in 1..NumGateReq |-> IF r <= 2 THEN {} ELSE {"goto"}],
   launchMayFail |-> FALSE]

Init == InitN(NumReq) /\ urlIn = <<>>

Next == NextIn(FullEnv)

Spec == Init /\ [][Next]_vars

\* every awaited step of a session settles in the end, by resolving or by
\* rejecting: a request whose block has a step pending gets to take it
StepOf(E, r) ==
  \/ NewPageSettled(E, r)
  \/ GotoSettled(E, r)
  \/ ContentSettled(E, r)
  \/ PdfSettled(E, r)
  \/ ScreenshotSettled(E, r)
  \/ BodySettled(E, r)
  \/ CloseSettled(E, r)

SpecLive == Init /\ [][Next]_vars /\ \A r \in 1..NumReq : WF_vars(StepOf(FullEnv, r))

InitGate == InitN(NumGateReq) /\ urlIn = <<>>

NextGate == NextIn(GateEnv)

SpecGate == InitGate /\ [][NextGate]_vars

\* two requests more than the gate has slots, so that two can wait at the
\* same time: the first is given an HTML page, the second an image, the
\* others a response above the size ceiling, and no step fails
FifoEnv ==
  [queries   |-> [r \in 1..NumFifoReq |->
                   {Q(Url("https://ex.com/", <<<<"id", ToString(r)>>>>))}],
   responses |-> [r \in 1..NumFifoReq |->
                   IF r = 1
                   THEN {Response(200, "text/html; charset=utf-8", "absent")}
                   ELSE IF r = 2
                   THEN {Response(200, "image/jpeg", "1024")}
                   ELSE {Response(200, "image/jpeg", "1073741825")}],
   faults    |-> [r \in 1..NumFifoReq |-> {}],
   launchMayFail |-> FALSE]

InitFifo == InitN(NumFifoReq) /\ urlIn = <<>>

NextFifo == NextIn(FifoEnv)

SpecFifo == InitFifo /\ [][NextFifo]_vars

\* content-type values of every category, in lower case and not, and
\* values carrying the keys of two categories
ContentTypes ==
  {"text/html; charset=utf-8", "TEXT/HTML", "application/pdf", "image/jpeg",
   "image/gif", "image/webp", "Image/GIF", "video/mp4", "video/", "text/csv",
   "application/vnd.ms-excel",
   "application/vnd.openxmlformats-officedocument.spreadsheetml.sheet",
   "application/msword",
   "application/vnd.openxmlformats-officedocument.wordprocessingml.document",
   "application/zip", "application/octet-stream", "application/json",
   "application/zip; text/html", "text/csv; x=image/", "absent"}

\* content-length values: none, empty, not a number, below, at and above
\* the ceiling
ContentLengths == {"absent", "", "unknown", "0", "1024", "1073741824", "1073741825"}

\* every content-type without a declared size, and every declared size
\* with an image and with an HTML page; no step fails
DispatchEnv ==
  [queries   |-> [r \in 1..NumDispatchReq |->
                   {Q(Url("https://ex.com/", <<<<"id", ToString(r)>>>>))}],
   responses |-> [r \in 1..NumDispatchReq |->
                   {Response(200, ct, "absent") : ct \in ContentTypes}
                   \cup {Response(200, ct, cl) :
                           ct \in {"image/jpeg", "text/html; charset=utf-8"},
                           cl \in ContentLengths}],
   faults    |-> [r \in 1..NumDispatchReq |-> {}],
   launchMayFail |-> FALSE]

InitDispatch == InitN(NumDispatchReq) /\ urlIn = <<>>

NextDispatch == NextIn(DispatchEnv)

SpecDispatch == InitDispatch /\ [][NextDispatch]_vars

\* ------------------------------------------------------------------------
\* normalizeUrl on its own: a string is drawn, the function is applied to
\* it and then to what it returned
\* ------------------------------------------------------------------------
UrlTokens ==
  {"https://ex.com/", "HTTPS://EX.COM/", "?", "&", "=", "#", "utm_source",
   "id", "%20"}

\* every string of at most MaxTokens tokens, URL or not
ShortStrings == UNION {[1..k -> UrlTokens] : k \in 0..MaxTokens}

\* pieces of a query: tracking parameters with and without value, written
\* plainly and percent-encoded, other parameters, a tracking name used as a
\* value, an empty piece, a piece with encoded text
Pieces ==
  {<<"utm_source", "=", "x">>, <<"id", "=", "1">>, <<"id", "=", "2">>,
   <<"gclid">>, <<"utm%5Fsource", "=", "1">>, <<"x", "=", "utm_source">>,
   <<"a", "+", "b", "=", "%3D">>, <<>>}

RECURSIVE JoinAmp(_)
JoinAmp(pieces) ==
  IF Len(pieces) = 1 THEN pieces[1]
  ELSE pieces[1] \o <<"&">> \o JoinAmp(Tail(pieces))

\* URLs of one to MaxPieces pieces, with and without a fragment
ComposedUrls ==
  {<<o>> \o <<"?">> \o JoinAmp(ps) \o f :
     o \in Origins,
     ps \in UNION {[1..k -> Pieces] : k \in 1..MaxPieces},
     f \in {<<>>, <<"#", "utm_source", "=", "x">>}}

\* one URL for each tracking name, the name before a parameter to keep
TrackedUrls ==
  {Url("https://ex.com/", <<<<name, "x">>, <<"id", "1">>>>) :
     name \in {"utm_source", "utm_medium", "utm_campaign", "utm_term",
               "utm_content", "gclid", "dclid", "fbclid", "msclkid", "yclid"}}

NormInputs == ShortStrings \cup ComposedUrls \cup TrackedUrls

InitNorm == InitN(0) /\ urlIn \in NormInputs

Normalize ==
  /\ Len(urlOut) < MaxApply
  /\ urlOut' = Append(urlOut, normalizeUrl(IF urlOut = <<>> THEN urlIn
                                            ELSE urlOut[Len(urlOut)]))
  /\ UNCHANGED <<browser, server, pc, query, activeCount, queue, admittedBy,
                 page, resp, savedFiles, written, dirs, disk, result, urlHash,
                 urlIn>>

NextNorm == Normalize

SpecNorm == InitNorm /\ [][NextNorm]_vars

\* ------------------------------------------------------------------------
\* Properties
\* ------------------------------------------------------------------------
Answered(r) == result[r] # NoResult

HasError(r) == "error" \in DOMAIN result[r].body

\* the gated block of r ran to its end: page.close() resolved
SessionReturned(r) == pc[r] = "done" /\ page[r] = "closed"

\* the gated block of r threw with the message of a failing step
FailedAt(r, step) ==
  pc[r] = "done" /\ HasError(r) /\ result[r].body.error = FaultMessage(step)

InBlock == {r \in Reqs : pc[r] \in Running}

HashFile(r, ext) ==
  [dir |-> hashOf(r), name |-> [stem |-> hashOf(r), ext |-> ext]]

\* C1: a request with a non-empty url whose page creation, navigation, size
\* check, saves and page close all succeed is answered 200 with savedFiles
\* as the body: one public URL per artifact kind saved (html, pdf and
\* screenshot for an HTML response).
C1_SuccessAnswered200 ==
  \A r \in Reqs :
    SessionReturned(r) =>
      /\ result[r].status = 200
      /\ result[r].body = savedFiles[r]
      /\ (contentTypeOf(r) = "text/html; charset=utf-8" =>
            {"html", "pdf", "screenshot"} \subseteq DOMAIN result[r].body)

\* C2: when the response of a request has been sent, the page opened for it
\* is closed, whichever way the gated block ended.
C2_PageClosedWhenAnswered ==
  \A r \in Reqs : Answered(r) => page[r] # "open"

\* C3: at most PARALLEL_LIMIT requests are inside the gated block at once.
C3_AtMostLimitInBlock ==
  /\ Cardinality(InBlock) <= PARALLEL_LIMIT
  /\ activeCount <= PARALLEL_LIMIT

\* all slots held and a further request waiting at the gate
C3_Witness ==
  /\ Cardinality(InBlock) = PARALLEL_LIMIT
  /\ Len(queue) > 0

\* C4: the slot of a gated block is released when the block ends, by return
\* or by throw: if a request is waiting, the oldest one is admitted in that
\* same turn, otherwise the count of held slots drops by one; slots held and
\* blocks running always agree, so none is held once every session has ended.
C4_Paired ==
  /\ activeCount = Cardinality(InBlock)
  /\ (\A r \in Reqs : pc[r] \notin Running) => activeCount = 0
  /\ \A r \in Reqs : pc[r] = "queued" => activeCount = PARALLEL_LIMIT

C4_ReleaseStep ==
  \A r \in Reqs :
    (pc[r] \in Running /\ pc'[r] = "done") =>
      IF Len(queue) > 0
      THEN /\ pc[Head(queue)] = "queued"
           /\ pc'[Head(queue)] = "newPage"
           /\ queue' = Tail(queue)
           /\ activeCount' = activeCount
      ELSE activeCount' = activeCount - 1

C4_SlotReleasedOnEveryExit == []C4_Paired /\ [][C4_ReleaseStep]_vars

\* a request that waited at the full gate runs, admitted by the release of
\* a session that threw (its navigation failed)
C4_Witness ==
  \E r \in Reqs :
    /\ pc[r] \in Running
    /\ admittedBy[r] # 0
    /\ result[admittedBy[r]].status = 500
    /\ page[admittedBy[r]] = "open"
    /\ activeCount = PARALLEL_LIMIT

\* C5: the handler of a request with a non-empty url never ends without an
\* answer: it answers 200, or 500 with a JSON error string for any failure.
C5_EveryFailureAnswered500 ==
  \A r \in Reqs :
    (pc[r] \in {"done", "uncaught"} /\ "url" \in DOMAIN query[r]
       /\ query[r]["url"] # <<>>) =>
      \/ result[r].status = 200 /\ ~HasError(r)
      \/ result[r].status = 500 /\ HasError(r)

\* C6: a request whose navigated response declares a content-length above
\* 1073741824 writes no file and is answered 500 with a JSON error.
DeclaresOversize(r) ==
  /\ "content-length" \in DOMAIN resp[r].headers
  /\ parseInt(resp[r].headers["content-length"]).value > 1073741824

C6_OversizeWritesNothing ==
  \A r \in Reqs :
    DeclaresOversize(r) =>
      /\ written[r] = {}
      /\ \A p \in DOMAIN disk : disk[p] # r
      /\ pc[r] = "done"
      /\ result[r].status = 500
      /\ HasError(r)

C6_Witness ==
  \E r \in Reqs :
    /\ DeclaresOversize(r)
    /\ result[r] = [status |-> 500, body |-> [error |-> SizeMessage]]

\* C7: a request whose url parameter is missing or empty is answered 400
\* with an error field and never enters the pipeline: its arrival creates
\* no directory, takes and queues for no slot, and it never has a page or a
\* file.
NoUrl(q) == "url" \notin DOMAIN q \/ q["url"] = <<>>

C7_Refused ==
  \A r \in Reqs :
    (pc[r] # "idle" /\ NoUrl(query[r])) =>
      /\ pc[r] = "done"
      /\ result[r].status = 400
      /\ HasError(r)
      /\ page[r] = "none"
      /\ written[r] = {}
      /\ savedFiles[r] = EmptyMap
      /\ \A i \in 1..Len(queue) : queue[i] # r

C7_ArrivalStep ==
  \A r \in Reqs :
    (pc[r] = "idle" /\ pc'[r] # "idle" /\ NoUrl(query'[r])) =>
      /\ dirs' = dirs
      /\ activeCount' = activeCount
      /\ queue' = queue
      /\ disk' = disk
      /\ page' = page

C7_MissingUrlNeverEnters == []C7_Refused /\ [][C7_ArrivalStep]_vars

\* one request without the parameter and one with the empty string, both
\* answered 400
C7_Witness ==
  \E r, s \in Reqs :
    /\ "url" \notin DOMAIN query[r] /\ result[r].status = 400
    /\ "url" \in DOMAIN query[s] /\ result[s].status = 400

\* C8: a navigation failure is a session failure.
\* page.goto rejected for r: its page is open, no response was received,
\* and its handler has ended
NavigationFailed(r) ==
  pc[r] = "done" /\ page[r] = "open" /\ resp[r] = NoResponse

\* C8 as claimed: a failed navigation, and also a navigation that resolved
\* with a non-200 response, saves nothing and is answered 500.
C8_NavFailureOrNon200 ==
  \A r \in Reqs :
    (NavigationFailed(r) \/ (resp[r] # NoResponse /\ resp[r].status # 200)) =>
      /\ written[r] = {}
      /\ pc[r] = "done" => result[r].status = 500

\* C8 amended: a navigation that fails (page.goto rejects) is answered 500
\* with the error and saves no artifact.
C8_NavFailure ==
  \A r \in Reqs :
    NavigationFailed(r) =>
      /\ result[r].status = 500
      /\ HasError(r)
      /\ written[r] = {}
      /\ savedFiles[r] = EmptyMap

C8_Witness ==
  \E r \in Reqs :
    /\ NavigationFailed(r)
    /\ result[r].body.error = FaultMessage("goto")

\* C9: the artifacts a session that ran to its end has written are fixed by
\* the content-type: <hash>.html, <hash>.pdf and <hash>.png for
\* "text/html; charset=utf-8"; <hash>.jpg alone for "image/jpeg";
\* <hash>.html alone for "application/octet-stream" or no content-type.
C9_ArtifactsByContentType ==
  \A r \in Reqs :
    SessionReturned(r) =>
      LET h == resp[r].headers
      IN  /\ ("content-type" \in DOMAIN h /\ h["content-type"] = "text/html; charset=utf-8") =>
               written[r] = {HashFile(r, "html"), HashFile(r, "pdf"), HashFile(r, "png")}
          /\ ("content-type" \in DOMAIN h /\ h["content-type"] = "image/jpeg") =>
               written[r] = {HashFile(r, "jpg")}
          /\ ("content-type" \in DOMAIN h /\ h["content-type"] = "application/octet-stream") =>
               written[r] = {HashFile(r, "html")}
          /\ "content-type" \notin DOMAIN h =>
               written[r] = {HashFile(r, "html")}

\* an HTML session and a JPEG session have both run to their end
C9_Witness ==
  \E r, s \in Reqs :
    /\ SessionReturned(r) /\ contentTypeOf(r) = "text/html; charset=utf-8"
    /\ Cardinality(written[r]) = 3
    /\ SessionReturned(s) /\ contentTypeOf(s) = "image/jpeg"
    /\ Cardinality(written[s]) = 1

\* C10: the HTML saver writes markup, then PDF, then screenshot; when a step
\* fails the request is answered 500 with only an error, no later step has
\* run, and what was written before the failing step is still on disk.
HtmlCategory(r) ==
  /\ "content-type" \in DOMAIN resp[r].headers
  /\ resp[r].headers["content-type"] = "text/html; charset=utf-8"

C10_HtmlSavesInOrderNoRollback ==
  \A r \in Reqs :
    HtmlCategory(r) =>
      /\ HashFile(r, "pdf") \in written[r] => HashFile(r, "html") \in written[r]
      /\ HashFile(r, "png") \in written[r] => HashFile(r, "pdf") \in written[r]
      /\ written[r] \subseteq DOMAIN disk
      /\ (FailedAt(r, "content") \/ FailedAt(r, "write")) => written[r] = {}
      /\ FailedAt(r, "pdf") => written[r] = {HashFile(r, "html")}
      /\ FailedAt(r, "screenshot") =>
           written[r] = {HashFile(r, "html"), HashFile(r, "pdf")}
      /\ \A step \in {"content", "write", "pdf", "screenshot"} :
           FailedAt(r, step) =>
             result[r].status = 500 /\ DOMAIN result[r].body = {"error"}

\* the PDF step failed after the markup was written
C10_Witness ==
  \E r \in Reqs :
    /\ HtmlCategory(r)
    /\ FailedAt(r, "pdf")
    /\ written[r] = {HashFile(r, "html")}
    /\ HashFile(r, "html") \in DOMAIN disk
    /\ result[r].status = 500

\* C11: the server listens only once the browser has launched: no request
\* is taken up while the browser is undefined, and after a failed launch
\* the process never listens and never takes up a request.
C11_BrowserBeforeRequests ==
  /\ server = "listening" => browser = "launched"
  /\ (\E r \in Reqs : pc[r] # "idle") => browser = "launched"
  /\ server = "failed" => (browser = "undefined" /\ \A r \in Reqs : pc[r] = "idle")

C11_FailedStays == server = "failed" => server' = "failed"

C11_ListenOnlyAfterLaunch ==
  []C11_BrowserBeforeRequests /\ [][C11_FailedStays]_vars

\* the launch failed: the process is not listening
C11_Witness == server = "failed" /\ browser = "undefined"

\* C12: normalizeUrl applied to its own result returns that result, for a
\* string that parses as a URL and for one that does not; a string that
\* does not parse is returned as it was given.
C12_Idempotent ==
  /\ \A i \in 2..Len(urlOut) : urlOut[i] = urlOut[1]
  /\ (Len(urlOut) >= 1 /\ ~URLParse(urlIn).ok) => urlOut[1] = urlIn

\* a URL that normalizeUrl shortened has been normalised again
C12_Witness ==
  /\ Len(urlOut) = MaxApply
  /\ URLParse(urlIn).ok
  /\ urlOut[1] # urlIn
  /\ Len(urlOut[1]) < Len(urlIn)

\* the parameters of a URL string, as searchParams lists them
ParamsOf(u) == SearchParams(URLParse(u).query)

IsTracking(pair) ==
  pair.name \in {<<"utm_source">>, <<"utm_medium">>, <<"utm_campaign">>,
                 <<"utm_term">>, <<"utm_content">>, <<"gclid">>, <<"dclid">>,
                 <<"fbclid">>, <<"msclkid">>, <<"yclid">>}

\* C13: for a string that parses as a URL, the result of normalizeUrl has
\* no parameter named utm_source, utm_medium, utm_campaign, utm_term,
\* utm_content, gclid, dclid, fbclid, msclkid or yclid, however often the
\* input had it, and has every other parameter of the input with its value,
\* in the order of the input.
C13_TrackingRemovedOthersKept ==
  (Len(urlOut) >= 1 /\ URLParse(urlIn).ok) =>
    /\ URLParse(urlOut[1]).ok
    /\ ParamsOf(urlOut[1]) =
         SelectSeq(ParamsOf(urlIn), LAMBDA pair : ~IsTracking(pair))

\* a tracking parameter between two parameters to keep: it is gone, the
\* other two are left with their values and order
C13_Witness ==
  /\ urlIn = <<"https://ex.com/", "?", "id", "=", "2", "&", "utm_source", "=",
               "x", "&", "id", "=", "1">>
  /\ Len(urlOut) >= 1
  /\ urlOut[1] = <<"https://ex.com/", "?", "id", "=", "2", "&", "id", "=", "1">>

\* C14: requests reach the gate in the order of their numbers; a request
\* that reached the gate after another has not been admitted while the
\* other is still waiting.
C14_FifoAdmission ==
  \A p \in Reqs : \A q \in Reqs :
    (p < q /\ pc[p] = "queued") => pc[q] \in {"idle", "queued"}

\* two requests waited together at a full gate and the one that came first
\* has been admitted while the other still waits
C14_Witness ==
  \E p \in Reqs : \E q \in Reqs :
    /\ p < q
    /\ admittedBy[p] # 0
    /\ pc[p] \in Running
    /\ pc[q] = "queued"
    /\ activeCount = concurrency

LowerChar(c) ==
  LET upper == <<"A","B","C","D","E","F","G","H","I","J","K","L","M","N","O",
                 "P","Q","R","S","T","U","V","W","X","Y","Z">>
      lower == <<"a","b","c","d","e","f","g","h","i","j","k","l","m","n","o",
                 "p","q","r","s","t","u","v","w","x","y","z">>
  IN  IF \E i \in 1..26 : upper[i] = c
      THEN lower[CHOOSE i \in 1..26 : upper[i] = c]
      ELSE c

\* key occurs in value, letter case disregarded
ContainsNoCase(value, key) ==
  LET cv == Chars(value)
      cy == Chars(key)
      cs == [i \in 1..Len(cv) |-> LowerChar(cv[i])]
      ck == [i \in 1..Len(cy) |-> LowerChar(cy[i])]
  IN  \E i \in 0..(Len(cs) - Len(ck)) : SubSeq(cs, i + 1, i + Len(ck)) = ck

\* the keys of a category of the ordered list
CategoryKeys ==
  <<{"text/html"}, {"application/pdf"}, {"image/"}, {"video/"}, {"text/csv"},
    {"application/vnd.ms-excel",
     "application/vnd.openxmlformats-officedocument.spreadsheetml.sheet"},
    {"application/msword",
     "application/vnd.openxmlformats-officedocument.wordprocessingml.document"},
    {"application/zip"}>>

\* the position in the list of the earliest category a key of which occurs
\* in the value; the position after the last one is the fallback
FirstMatch(value) ==
  LET hits == {i \in DOMAIN CategoryKeys :
                 \E key \in CategoryKeys[i] : ContainsNoCase(value, key)}
  IN  IF hits = {} THEN Len(CategoryKeys) + 1
      ELSE CHOOSE i \in hits : \A j \in hits : i <= j

\* the category whose saver wrote the files of a session, read from the
\* extensions of the files
SavedBy(r) ==
  LET exts == {f.name.ext : f \in written[r]}
  IN  CASE exts = {"html", "pdf", "png"}          -> 1
        [] exts = {"pdf"}                         -> 2
        [] exts \in {{"jpg"}, {"gif"}, {"png"}}   -> 3
        [] exts = {"mp4"}                         -> 4
        [] exts = {"csv"}                         -> 5
        [] exts \in {{"xls"}, {"xlsx"}}           -> 6
        [] exts \in {{"doc"}, {"docx"}}           -> 7
        [] exts = {"zip"}                         -> 8
        [] exts = {"html"}                        -> 9
        [] OTHER                                  -> 0

\* C15: the files of a session that ran to its end are those of the saver
\* of the earliest category of the list (text/html, application/pdf,
\* image/, video/, text/csv, spreadsheet, document, application/zip,
\* fallback) a key of which occurs in the content-type, letter case
\* disregarded.
C15_SaverByFirstMatchNoCase ==
  \A r \in Reqs :
    SessionReturned(r) => SavedBy(r) = FirstMatch(contentTypeOf(r))

\* C16: a save step writes its file at the path of the hash whatever
\* request wrote that path before and whatever other requests are in their
\* blocks: the file on disk is then the writer's, and every file on disk is
\* that of the request that wrote its path last.
C16_WriteStep ==
  \A r \in Reqs : \A path \in written'[r] \ written[r] :
    path \in DOMAIN disk' /\ disk'[path] = r

C16_NoPerHashExclusion ==
  /\ [](\A path \in DOMAIN disk : path \in written[disk[path]])
  /\ [][C16_WriteStep]_vars

\* two requests for one hash have both run to their end, and the markup on
\* disk is the one's while the PDF and the screenshot are the other's
C16_Witness ==
  \E r \in Reqs : \E s \in Reqs :
    /\ r # s
    /\ SessionReturned(r) /\ SessionReturned(s)
    /\ contentTypeOf(r) = "text/html; charset=utf-8"
    /\ contentTypeOf(s) = "text/html; charset=utf-8"
    /\ originalUrl(r) # originalUrl(s)
    /\ hashOf(r) = hashOf(s)
    /\ disk[HashFile(r, "html")] = r
    /\ disk[HashFile(r, "pdf")] = s
    /\ disk[HashFile(r, "png")] = s

\* u and v are URLs that differ at most in their tracking parameters
SameButTracking(u, v) ==
  LET a == URLParse(u)
      b == URLParse(v)
  IN  /\ a.ok /\ b.ok
      /\ a.origin = b.origin /\ a.path = b.path /\ a.fragment = b.fragment
      /\ SelectSeq(ParamsOf(u), LAMBDA pair : ~IsTracking(pair))
           = SelectSeq(ParamsOf(v), LAMBDA pair : ~IsTracking(pair))

HasUrl(r) == pc[r] # "idle" /\ ~IsFalsy(query[r])

\* C17: with h the digest of normalizeUrl(u) for the raw URL u of a
\* request, every file the request has written is <h>/<h>.<ext> under the
\* archive root, every public URL it has recorded is
\* <base>/files/<h>/<h>.<ext> of a file it has written, and two requests
\* whose URLs differ only in tracking parameters have the same h.
C17_FilesUnderOwnHash ==
  \A r \in Reqs :
    HasUrl(r) =>
      LET h == [sha1 |-> normalizeUrl(query[r]["url"])]
      IN  /\ \A f \in written[r] : f.dir = h /\ f.name.stem = h
          /\ \A kind \in DOMAIN savedFiles[r] :
               LET pub == savedFiles[r][kind]
               IN  /\ pub.base = "http://localhost:3000/files"
                   /\ pub.dir = h /\ pub.name.stem = h
                   /\ [dir |-> pub.dir, name |-> pub.name] \in written[r]
          /\ \A s \in Reqs :
               (HasUrl(s) /\ SameButTracking(query[r]["url"], query[s]["url"]))
                 => /\ h = [sha1 |-> normalizeUrl(query[s]["url"])]
                    /\ \A f \in written[r] : \A g \in written[s] : f.dir = g.dir

\* two requests whose URLs differ in a tracking parameter have both written
\* the same file
C17_Witness ==
  \E r \in Reqs : \E s \in Reqs :
    /\ HasUrl(r) /\ HasUrl(s)
    /\ query[r]["url"] # query[s]["url"]
    /\ written[r] \cap written[s] # {}
    /\ DOMAIN savedFiles[r] # {}

\* the response of r has a content-length whose integer value is above the
\* ceiling of 1073741824
AboveCeiling(r) ==
  /\ "content-length" \in DOMAIN resp[r].headers
  /\ resp[r].headers["content-length"] \in {"1073741825"}

\* the block of r was ended by the size guard
RejectedBySize(r) ==
  pc[r] = "done" /\ HasError(r) /\ result[r].body.error = SizeMessage

\* C18: a session is ended by the size guard exactly when its response has
\* a content-length whose integer value is above 1073741824; with no such
\* header, or a value at or below the ceiling, the session goes on to its
\* saver and writes its files.
C18_SizeGuardIff ==
  \A r \in Reqs :
    /\ RejectedBySize(r) => AboveCeiling(r)
    /\ (pc[r] \in {"content", "pdf", "screenshot", "body", "close"})
         => ~AboveCeiling(r)
    /\ (pc[r] = "done" /\ page[r] # "none") =>
         IF AboveCeiling(r)
         THEN RejectedBySize(r) /\ written[r] = {}
         ELSE ~RejectedBySize(r) /\ written[r] # {}

\* a response of exactly the ceiling was saved
C18_Witness ==
  \E r \in Reqs :
    /\ SessionReturned(r)
    /\ "content-length" \in DOMAIN resp[r].headers
    /\ resp[r].headers["content-length"] = "1073741824"
    /\ written[r] # {}

OpenPages == {r \in Reqs : page[r] = "open"}

\* C19: at most PARALLEL_LIMIT = 5 pages are open, and a page is open only
\* while its request is inside its gated block.
C19_OpenPagesBounded ==
  /\ Cardinality(OpenPages) <= 5
  /\ \A r \in OpenPages : pc[r] \in Running

Admitted(r) == pc[r] \in Running \cup {"done"}

C20_AnsweredOnce ==
  \A r \in Reqs : Answered(r) => result'[r] = result[r]

\* C20: when every step of an admitted session settles in the end, a
\* request with a non-empty url is admitted by the gate in the end and gets
\* a response of status 200 or 500 in the end, and a response once sent is
\* never followed by another.
C20_EveryRequestAnswered ==
  /\ \A r \in 1..NumReq : HasUrl(r) ~> Admitted(r)
  /\ \A r \in 1..NumReq :
       HasUrl(r) ~> (Answered(r) /\ result[r].status \in {200, 500})
  /\ [][C20_AnsweredOnce]_vars
====
